---------------------------- MODULE Spec2Model ----------------------------
(***************************************************************************)
(* Model of src/webapp.py (Warehouse Staffing Planner): the headcount      *)
(* estimator, the workload assignment engine assign_and_balance_workload,  *)
(* and the Shift 1 -> Shift 2 carryover.                                   *)
(*                                                                         *)
(* Numbers.  The program computes minutes with Python floats (IEEE-754     *)
(* binary64, round-to-nearest-even after every operation).  The model      *)
(* keeps that arithmetic but with a short significand: a number is a       *)
(* non-negative multiple of the quantum 1/Q minute with at most MantBits   *)
(* significant bits, and every operation is computed exactly and then      *)
(* rounded to the nearest such number, ties to even (RN).  Python ints     *)
(* (counts, percentages) stay exact integers, as they are in the program.  *)
(***************************************************************************)
EXTENDS Integers, Sequences, FiniteSets, TLC

\* ------------------------------------------------------------------ bounds
MantBits == 6      \* significant bits kept by a float operation
FracBits == 7      \* the quantum is 2^-FracBits minute

Q == 2 ^ FracBits

\* ------------------------------------------------- float arithmetic (RN)
RECURSIVE Scale(_)
\* the spacing of the floats around q quanta: the least power of two s with
\* q \div s < 2^MantBits
Scale(q) == IF q < 2 ^ MantBits THEN 1 ELSE 2 * Scale(q \div 2)

\* the rational n/d (n >= 0, d > 0, in quanta) rounded to the nearest float,
\* ties to even
RN(n, d) ==
    LET s == Scale(n \div d)
        m == n \div (d * s)
        r == n - m * d * s
        up == (2 * r > d * s) \/ (2 * r = d * s /\ m % 2 = 1)
    IN  (IF up THEN m + 1 ELSE m) * s

fadd(a, b) == RN(a + b, 1)          \* float + float
fsub(a, b) == RN(a - b, 1)          \* float - float, a >= b
fmul(a, b) == RN(a * b, Q)          \* float * float
fdiv(a, b) == RN(a * Q, b)          \* float / float, b > 0
imulf(i, a) == RN(i * a, 1)         \* int * float
fdivi(a, i) == RN(a, i)             \* float / int, i > 0
idivi(i, j) == RN(i * Q, j)         \* int / int (true division)
iaddf(i, a) == RN(i * Q + a, 1)     \* int + float

\* ---------------------------------------------------- helper functions
\* time_to_minutes on a well-formed "h:m:s" string: h * 60 + m + s / 60
time_to_minutes(h, m, s) == iaddf(h * 60 + m, idivi(s, 60))


\* calculate_headcount_recommendation(total_work_minutes, shift_minutes,
\* target_efficiency): total and shift are floats, target_efficiency an int
calculate_headcount_recommendation(total_work_minutes, shift_mins, target_eff) ==
    IF shift_mins = 0 \/ target_eff = 0 THEN 999
    ELSE LET effective_capacity_per_associate == fmul(shift_mins, idivi(target_eff, 100))
         IN  IF effective_capacity_per_associate = 0 THEN 999
             ELSE LET required_headcount == fdiv(total_work_minutes, effective_capacity_per_associate)
                      int_part == required_headcount \div Q
                  IN  int_part + (IF required_headcount > int_part * Q THEN 1 ELSE 0)

\* ------------------------------------------------------------- the inputs
Zones == {"Z1", "Z2"}
ZoneOrder == <<"Z1", "Z2">>      \* iteration order of the replenishment_items dict

MaxAssoc == 2       \* associates in the roster
MaxPutaway == 3     \* requested putaway transactions
MaxStock == 1       \* requested stock requests

VARIABLES
    pc,               \* position in the program
    associates,       \* the roster: a sequence of associate records
    work_volumes,     \* num_putaway, num_stock_requests, replenishment_items
    task_times,       \* picking_time, putaway_time, stock_request_time (floats)
    shift_minutes,    \* float
    target_efficiency,\* int
    unassigned_work,  \* putaway, stock_request, fulfillment_minutes
    placed,           \* history: units of each kind placed on each associate
    first_result,     \* history: what the first of two calls returned
    carryover_data,   \* st.session_state.carryover_data
    shift2_volumes,   \* the work volumes render_shift_inputs_and_logic builds for Shift 2
    headcount,        \* arguments and result of calculate_headcount_recommendation
    shift_data        \* what render_shift_inputs_and_logic returned, can_generate included

inputs == <<work_volumes, task_times, shift_minutes, target_efficiency>>
others == <<first_result, carryover_data, shift2_volumes, headcount, shift_data>>

vars == <<pc, associates, work_volumes, task_times, shift_minutes,
          target_efficiency, unassigned_work, placed, first_result,
          carryover_data, shift2_volumes, headcount, shift_data>>

\* ------------------------------------------- assign_and_balance_workload
N == Len(associates)

\* mutant: the capacity ignores the target efficiency
ResetAssociate_NoEfficiency(assoc) ==
    LET personal_shift_minutes == fmul(shift_minutes, iaddf(1, idivi(assoc.overtime_pct, 100)))
    IN  [assoc EXCEPT !.total_work = 0, !.fulfillment_time = 0, !.putaway_time = 0,
                      !.stock_request_time = 0, !.fulfillment_overage = 0,
                      !.personal_capacity = personal_shift_minutes,
                      !.personal_shift_minutes = personal_shift_minutes]

\* mutant: the fulfillment time of an earlier call is not reset
ResetAssociate_KeepsFulfillment(assoc) ==
    LET personal_shift_minutes == fmul(shift_minutes, iaddf(1, idivi(assoc.overtime_pct, 100)))
        personal_capacity == fmul(personal_shift_minutes, idivi(target_efficiency, 100))
    IN  [assoc EXCEPT !.total_work = 0, !.putaway_time = 0,
                      !.stock_request_time = 0, !.fulfillment_overage = 0,
                      !.personal_capacity = personal_capacity,
                      !.personal_shift_minutes = personal_shift_minutes]

\* lines 26-33: personal shift and capacity from overtime, accumulators reset
ResetAssociate(assoc) ==
    LET personal_shift_minutes == fmul(shift_minutes, iaddf(1, idivi(assoc.overtime_pct, 100)))
        personal_capacity == fmul(personal_shift_minutes, idivi(target_efficiency, 100))
    IN  [assoc EXCEPT !.total_work = 0, !.fulfillment_time = 0, !.putaway_time = 0,
                      !.stock_request_time = 0, !.fulfillment_overage = 0,
                      !.personal_capacity = personal_capacity,
                      !.personal_shift_minutes = personal_shift_minutes]

CapacitySetup(assocs) == [i \in 1..Len(assocs) |-> ResetAssociate(assocs[i])]

\* lines 36-38: the indices of the associates that list workcenter wc
wc_ownership(assocs, wc) == {i \in 1..Len(assocs) : wc \in assocs[i].workcenters}

\* lines 41-44 for one workcenter: every owner gets items * picking_time / owners
AddWorkcenter(assocs, wc) ==
    LET owners_indices == wc_ownership(assocs, wc)
        items == work_volumes.replenishment_items[wc]
    IN  IF items = 0 \/ owners_indices = {} THEN assocs
        ELSE LET work_time_per_owner ==
                     fdivi(imulf(items, task_times.picking_time), Cardinality(owners_indices))
             IN  [i \in 1..Len(assocs) |->
                    IF i \in owners_indices
                    THEN [assocs[i] EXCEPT !.fulfillment_time = fadd(@, work_time_per_owner)]
                    ELSE assocs[i]]

RECURSIVE FixedOwnership(_, _)
\* lines 40-44: the workcenters of replenishment_items, in the dict's order
FixedOwnership(assocs, wcs) ==
    IF wcs = <<>> THEN assocs
    ELSE FixedOwnership(AddWorkcenter(assocs, Head(wcs)), Tail(wcs))

\* lines 47-50 for one associate: total_work starts as the fulfillment time,
\* and what exceeds the capacity is the fulfillment overage
AnchorTotal(assoc) ==
    LET a == [assoc EXCEPT !.total_work = assoc.fulfillment_time]
    IN  IF a.total_work > a.personal_capacity
        THEN [a EXCEPT !.fulfillment_overage = fsub(a.total_work, a.personal_capacity)]
        ELSE a

RECURSIVE OverageSum(_, _)
\* line 51: fulfillment_minutes += fulfillment_overage, in roster order
OverageSum(assocs, k) ==
    IF k = 0 THEN 0
    ELSE LET before == OverageSum(assocs, k - 1)
         IN  IF assocs[k].total_work > assocs[k].personal_capacity
             THEN fadd(before, assocs[k].fulfillment_overage)
             ELSE before

\* ------------------------------------------------------- the greedy loop
\* mutant: an associate exactly at capacity is still eligible
Eligible_AtCapacity(a) == a.total_work <= a.personal_capacity

\* line 55: total_work < personal_capacity
Eligible(a) == a.total_work < a.personal_capacity

RECURSIVE Insert_Unstable(_, _, _)
\* mutant: an unstable sort, equal keys end up in reverse roster order
Insert_Unstable(assocs, s, i) ==
    IF s = <<>> THEN <<i>>
    ELSE IF assocs[Head(s)].total_work < assocs[i].total_work
         THEN <<Head(s)>> \o Insert_Unstable(assocs, Tail(s), i)
         ELSE <<i>> \o s

RECURSIVE Insert(_, _, _)
\* insert index i into the index list s, sorted by total_work, after every
\* entry whose key is not greater (sorted() is stable)
Insert(assocs, s, i) ==
    IF s = <<>> THEN <<i>>
    ELSE IF assocs[Head(s)].total_work <= assocs[i].total_work
         THEN <<Head(s)>> \o Insert(assocs, Tail(s), i)
         ELSE <<i>> \o s

RECURSIVE eligible_associates_Unsorted(_, _)
\* mutant: the eligible associates in roster order, not sorted by total_work
eligible_associates_Unsorted(assocs, k) ==
    IF k = 0 THEN <<>>
    ELSE IF assocs[k].total_work < assocs[k].personal_capacity
         THEN eligible_associates_Unsorted(assocs, k - 1) \o <<k>>
         ELSE eligible_associates_Unsorted(assocs, k - 1)

RECURSIVE eligible_associates(_, _)
\* lines 54-57: the eligible associates among the first k, sorted by total_work
eligible_associates(assocs, k) ==
    IF k = 0 THEN <<>>
    ELSE IF Eligible(assocs[k])
         THEN Insert(assocs, eligible_associates(assocs, k - 1), k)
         ELSE eligible_associates(assocs, k - 1)

RECURSIVE FirstTask(_, _)
\* lines 62-74: the first task type of the priorities whose pool is not empty
FirstTask(priorities, uw) ==
    IF priorities = <<>> THEN "none"
    ELSE IF Head(priorities) = "putaway" /\ uw.putaway > 0 THEN "putaway"
    ELSE IF Head(priorities) = "stock_request" /\ uw.stock_request > 0 THEN "stock_request"
    ELSE FirstTask(Tail(priorities), uw)

RECURSIVE FirstAssignee_HeadOnly(_, _, _)
\* mutant: only the least-loaded eligible associate is asked for a task
FirstAssignee_HeadOnly(assocs, sorted, uw) ==
    IF sorted = <<>> THEN 0
    ELSE IF FirstTask(assocs[Head(sorted)].priorities, uw) # "none" THEN Head(sorted)
    ELSE 0

RECURSIVE FirstAssignee(_, _, _)
\* lines 61-75: the first associate of the sorted list that takes a task; 0 if none
FirstAssignee(assocs, sorted, uw) ==
    IF sorted = <<>> THEN 0
    ELSE IF FirstTask(assocs[Head(sorted)].priorities, uw) # "none" THEN Head(sorted)
    ELSE FirstAssignee(assocs, Tail(sorted), uw)

\* mutant: a placement that takes the associate over its capacity is booked
\* as fulfillment overage
AssignUnit_BooksOverage(assoc, task_type) ==
    LET cost == IF task_type = "putaway" THEN task_times.putaway_time
                ELSE task_times.stock_request_time
        total == fadd(assoc.total_work, cost)
    IN  [assoc EXCEPT
            !.putaway_time = IF task_type = "putaway" THEN fadd(@, cost) ELSE @,
            !.stock_request_time = IF task_type = "putaway" THEN @ ELSE fadd(@, cost),
            !.total_work = total,
            !.fulfillment_overage =
                IF total > assoc.personal_capacity
                THEN fsub(total, assoc.personal_capacity) ELSE @]

\* lines 64-65 / 70-71: the assignee's accumulators after one unit of task_type
AssignUnit(assoc, task_type) ==
    IF task_type = "putaway"
    THEN [assoc EXCEPT !.putaway_time = fadd(@, task_times.putaway_time),
                       !.total_work = fadd(@, task_times.putaway_time)]
    ELSE [assoc EXCEPT !.stock_request_time = fadd(@, task_times.stock_request_time),
                       !.total_work = fadd(@, task_times.stock_request_time)]

\* mutant: a stock request is placed without leaving its pool
TakeFromPool_KeepsStock(uw, task_type) ==
    IF task_type = "putaway" THEN [uw EXCEPT !.putaway = @ - 1] ELSE uw

\* mutant: every placement is taken from the putaway pool
TakeFromPool_WrongPool(uw, task_type) == [uw EXCEPT !.putaway = @ - 1]

\* lines 66 / 72: the pool of task_type loses one unit
TakeFromPool(uw, task_type) ==
    IF task_type = "putaway"
    THEN [uw EXCEPT !.putaway = @ - 1]
    ELSE [uw EXCEPT !.stock_request = @ - 1]

\* line 53: the while condition
WorkLeft(uw) == uw.putaway > 0 \/ uw.stock_request > 0

\* ---------------------------------------------------------------- inputs
\* "h:m:s" strings as the UI's text inputs hold them, split at the colons:
\* picking, putaway, stock request
TimeStandards == {
    << <<0, 2, 0>>,  <<0, 1, 20>>, <<0, 0, 50>> >>,
    << <<0, 0, 40>>, <<0, 0, 0>>,  <<0, 1, 0>> >>,
    << <<0, 0, 0>>,  <<0, 0, 20>>, <<0, 0, 0>> >> }

\* shift working hours "h:m:s" and target efficiency %
ShiftConfigs == {
    << <<0, 4, 0>>, 100 >>,
    << <<0, 30, 0>>, 60 >>,
    << <<0, 4, 0>>, 0 >>,
    << <<0, 0, 0>>, 75 >> }

\* items of the workcenters Z1, Z2 (0: the workcenter is not in the dict)
ItemCounts == { <<0, 0>>, <<2, 0>>, <<1, 3>> }

\* an associate as the caller builds it (line 364); the accumulators of
\* assign_and_balance_workload are not set yet
NewAssociate(wcs, prios, ot) ==
    [workcenters |-> wcs, priorities |-> prios, overtime_pct |-> ot,
     total_work |-> 0, fulfillment_time |-> 0, putaway_time |-> 0,
     stock_request_time |-> 0, fulfillment_overage |-> 0,
     personal_capacity |-> 0, personal_shift_minutes |-> 0]

\* the associates a roster is drawn from: workcenters, priorities, overtime %
AssociateInputs == {
    NewAssociate({}, <<"putaway">>, 0),
    NewAssociate({}, <<"stock_request", "putaway">>, 0),
    NewAssociate({"Z1"}, <<"putaway", "stock_request">>, 0),
    NewAssociate({"Z1", "Z2"}, <<"stock_request">>, 50),
    NewAssociate({"Z2"}, <<>>, 0) }

Rosters == UNION {[1..n -> AssociateInputs] : n \in 0..MaxAssoc}

\* lines 192-198: the carryover of a session in which no plan was generated
NoCarryover == [num_putaway |-> 0, num_stock_requests |-> 0, fulfillment_minutes |-> 0,
                replenishment_items |-> [wc \in Zones |-> 0]]
NoResult == [run |-> 1]
NoVolumes == [rendered |-> FALSE]
NoHeadcount == [called |-> FALSE]
NoShiftData == [rendered |-> FALSE]

NoPlaced(n) == [i \in 1..n |-> [putaway |-> 0, stock_request |-> 0]]

\* the arguments of a call, drawn from the given rosters, item counts, time
\* standards and shift configurations
InitFrom(rosters, counts, standards, configs) ==
    /\ pc = "start"
    /\ associates \in rosters
    /\ \E np \in 0..MaxPutaway, ns \in 0..MaxStock, items \in counts :
          work_volumes = [num_putaway |-> np, num_stock_requests |-> ns,
                          replenishment_items |-> [wc \in Zones |-> IF wc = "Z1" THEN items[1] ELSE items[2]]]
    /\ \E ts \in standards :
          task_times = [picking_time |-> time_to_minutes(ts[1][1], ts[1][2], ts[1][3]),
                        putaway_time |-> time_to_minutes(ts[2][1], ts[2][2], ts[2][3]),
                        stock_request_time |-> time_to_minutes(ts[3][1], ts[3][2], ts[3][3])]
    /\ \E sc \in configs :
          /\ shift_minutes = time_to_minutes(sc[1][1], sc[1][2], sc[1][3])
          /\ target_efficiency = sc[2]
    /\ unassigned_work = [putaway |-> 0, stock_request |-> 0, fulfillment_minutes |-> 0]
    /\ placed = NoPlaced(Len(associates))
    /\ first_result = NoResult
    /\ carryover_data = NoCarryover
    /\ shift2_volumes = NoVolumes
    /\ headcount = NoHeadcount
    /\ shift_data = NoShiftData

Init == InitFrom(Rosters, ItemCounts, TimeStandards, ShiftConfigs)

\* lines 26-51: capacities, the pools, the fixed-ownership pass, the overage
FixedOwnershipPass ==
    /\ pc = "start"
    /\ LET owned == FixedOwnership(CapacitySetup(associates), ZoneOrder)
           totals == [i \in 1..N |-> AnchorTotal(owned[i])]
       IN  /\ associates' = totals
           /\ unassigned_work' = [putaway |-> work_volumes.num_putaway,
                                  stock_request |-> work_volumes.num_stock_requests,
                                  fulfillment_minutes |-> OverageSum(totals, N)]
    /\ placed' = NoPlaced(N)
    /\ pc' = "loop"
    /\ UNCHANGED <<inputs, others>>

\* lines 53-76, one pass that places a unit
GreedyPass ==
    /\ pc = "loop"
    /\ WorkLeft(unassigned_work)
    /\ LET sorted == eligible_associates(associates, N)
           assignee == FirstAssignee(associates, sorted, unassigned_work)
       IN  /\ sorted # <<>>
           /\ assignee # 0
           /\ LET task_type == FirstTask(associates[assignee].priorities, unassigned_work)
              IN  /\ associates' = [associates EXCEPT ![assignee] = AssignUnit(@, task_type)]
                  /\ unassigned_work' = TakeFromPool(unassigned_work, task_type)
                  /\ placed' = [placed EXCEPT ![assignee][task_type] = @ + 1]
    /\ UNCHANGED <<pc, inputs, others>>

\* line 53: both pools are empty, the loop is over
LoopExit ==
    /\ pc = "loop"
    /\ ~WorkLeft(unassigned_work)
    /\ pc' = "done"
    /\ UNCHANGED <<associates, unassigned_work, placed, inputs, others>>

\* line 58: no associate is below capacity
BreakNoEligible ==
    /\ pc = "loop"
    /\ WorkLeft(unassigned_work)
    /\ eligible_associates(associates, N) = <<>>
    /\ pc' = "done"
    /\ UNCHANGED <<associates, unassigned_work, placed, inputs, others>>

\* line 76: no eligible associate took a task in this pass
BreakNoTask ==
    /\ pc = "loop"
    /\ WorkLeft(unassigned_work)
    /\ eligible_associates(associates, N) # <<>>
    /\ FirstAssignee(associates, eligible_associates(associates, N), unassigned_work) = 0
    /\ pc' = "done"
    /\ UNCHANGED <<associates, unassigned_work, placed, inputs, others>>

Next == FixedOwnershipPass \/ GreedyPass \/ LoopExit \/ BreakNoEligible \/ BreakNoTask

Spec == Init /\ [][Next]_vars

\* ------------------------------------------------- a second call (C5)
\* the caller invokes assign_and_balance_workload again with the same
\* arguments; the roster still holds what the first call wrote into it
CallAgain ==
    /\ pc = "done"
    /\ first_result.run = 1
    /\ first_result' = [run |-> 2, associates |-> associates,
                        unassigned_work |-> unassigned_work]
    /\ pc' = "start"
    /\ UNCHANGED <<associates, unassigned_work, placed, inputs,
                   carryover_data, shift2_volumes, headcount, shift_data>>

\* the runs that are repeated: the pools are empty or full
InitRerun == Init /\ work_volumes.num_putaway \in {0, MaxPutaway}

NextRerun == Next \/ CallAgain

SpecRerun == InitRerun /\ [][NextRerun]_vars

\* ------------------------------------------ Shift 1 -> Shift 2 carryover
RECURSIVE TotalItems(_, _)
\* sum(replenishment_items.values()) over the workcenters of the list wcs
TotalItems(items, wcs) ==
    IF wcs = <<>> THEN 0 ELSE items[Head(wcs)] + TotalItems(items, Tail(wcs))

\* line 439: carryover_wc_items > 0.01
AboveEpsilon(x) == 100 * x > Q

\* lines 431-441: the carried item count of workcenter wc
CarryoverItems(wc) ==
    LET original_items_in_wc == work_volumes.replenishment_items[wc]
        total_items_in_shift1_original == TotalItems(work_volumes.replenishment_items, ZoneOrder)
    IN  IF task_times.picking_time > 0 /\ total_items_in_shift1_original > 0
           /\ original_items_in_wc > 0
        THEN LET unfulfilled_fulfillment_items_total ==
                     fdiv(unassigned_work.fulfillment_minutes, task_times.picking_time)
                 proportion == idivi(original_items_in_wc, total_items_in_shift1_original)
                 carryover_wc_items == fmul(unfulfilled_fulfillment_items_total, proportion)
             IN  IF AboveEpsilon(carryover_wc_items) THEN carryover_wc_items ELSE 0
        ELSE 0

\* lines 419-447: the rest of the "Generate Shift 1 Plan" handler, after
\* assign_and_balance_workload has returned
CaptureCarryover ==
    /\ pc = "done"
    /\ first_result.run = 1
    /\ carryover_data' = [carryover_data EXCEPT
            !.num_putaway = unassigned_work.putaway,
            !.num_stock_requests = unassigned_work.stock_request,
            !.replenishment_items = [wc \in Zones |-> CarryoverItems(wc)]]
    /\ pc' = "carried"
    /\ UNCHANGED <<associates, unassigned_work, placed, inputs,
                   first_result, shift2_volumes, headcount, shift_data>>

\* mutant: int() instead of round(), the fraction is cut off
RoundToInt_Truncates(x) == x \div Q

\* line 267: int(round(x)) of a float; Python rounds halves to the even integer
RoundToInt(x) ==
    LET m == x \div Q
        r == x % Q
    IN  IF 2 * r > Q \/ (2 * r = Q /\ m % 2 = 1) THEN m + 1 ELSE m

\* what the user enters for Shift 2: putaway, stock requests, items of Z1, Z2
EnteredVolumes == { <<0, 0, 0, 0>>, <<1, 0, 2, 0>>, <<2, 1, 1, 3>> }

\* lines 220-279 of render_shift_inputs_and_logic("shift2", carryover):
\* the entered volumes plus the carryover
RenderShift2 ==
    /\ pc = "carried"
    /\ \E e \in EnteredVolumes :
          LET user_items == [wc \in Zones |-> IF wc = "Z1" THEN e[3] ELSE e[4]]
          IN  shift2_volumes' =
                 [rendered |-> TRUE,
                  user_added_putaway |-> e[1],
                  user_added_stock_requests |-> e[2],
                  user_added_items |-> user_items,
                  num_putaway |-> e[1] + carryover_data.num_putaway,
                  num_stock_requests |-> e[2] + carryover_data.num_stock_requests,
                  replenishment_items |->
                      [wc \in Zones |->
                          user_items[wc] + RoundToInt(carryover_data.replenishment_items[wc])]]
    /\ pc' = "shift2"
    /\ UNCHANGED <<associates, unassigned_work, placed, inputs,
                   first_result, carryover_data, headcount, shift_data>>

NextCarry == Next \/ CaptureCarryover \/ RenderShift2

SpecCarry == InitRerun /\ [][NextCarry]_vars

\* runs whose fulfillment overage is carried over in uneven shares: an
\* associate owning both workcenters, item counts that are not in the
\* proportion of a power of two
CarryoverAssociates == {
    NewAssociate({"Z1", "Z2"}, <<"putaway">>, 0),
    NewAssociate({"Z1", "Z2"}, <<"stock_request">>, 50),
    NewAssociate({"Z1"}, <<>>, 0) }

CarryoverRosters == UNION {[1..n -> CarryoverAssociates] : n \in 0..MaxAssoc}

CarryoverItemCounts == { <<0, 0>>, <<1, 4>>, <<4, 1>>, <<0, 3>> }

CarryoverStandards == {
    << <<0, 0, 40>>, <<0, 1, 0>>,  <<0, 0, 0>> >>,
    << <<0, 1, 10>>, <<0, 0, 20>>, <<0, 0, 50>> >>,
    << <<0, 0, 0>>,  <<0, 0, 20>>, <<0, 0, 0>> >> }

CarryoverConfigs == {
    << <<0, 0, 50>>, 100 >>,
    << <<0, 4, 0>>, 99 >>,
    << <<0, 0, 0>>, 75 >> }

InitCarryover ==
    InitFrom(CarryoverRosters, CarryoverItemCounts, CarryoverStandards, CarryoverConfigs)

NextCarryover == Next \/ CaptureCarryover

SpecCarryover == InitCarryover /\ [][NextCarryover]_vars

\* ------------------------------- the headcount estimator on its own (C8)
MaxUnits == 57      \* units of work behind total_work_minutes

UnitStrings == { <<0, 1, 0>>, <<0, 1, 20>> }
HeadcountShifts == { <<0, 0, 0>>, <<0, 48, 0>>, <<1, 40, 0>> }
HeadcountEfficiencies == { 0, 50, 57, 100 }

InitHeadcount ==
    /\ pc = "headcount"
    /\ \E n \in 0..MaxUnits, u \in UnitStrings, sh \in HeadcountShifts,
          te \in HeadcountEfficiencies :
          headcount = [called |-> FALSE,
                       total_work_minutes |-> imulf(n, time_to_minutes(u[1], u[2], u[3])),
                       shift_minutes |-> time_to_minutes(sh[1], sh[2], sh[3]),
                       target_efficiency |-> te]
    /\ associates = <<>>
    /\ work_volumes = [num_putaway |-> 0, num_stock_requests |-> 0,
                       replenishment_items |-> [wc \in Zones |-> 0]]
    /\ task_times = [picking_time |-> 0, putaway_time |-> 0, stock_request_time |-> 0]
    /\ shift_minutes = 0
    /\ target_efficiency = 0
    /\ unassigned_work = [putaway |-> 0, stock_request |-> 0, fulfillment_minutes |-> 0]
    /\ placed = <<>>
    /\ first_result = NoResult
    /\ carryover_data = NoCarryover
    /\ shift2_volumes = NoVolumes
    /\ shift_data = NoShiftData

\* lines 17-22: one call of calculate_headcount_recommendation
Recommend ==
    /\ pc = "headcount"
    /\ headcount' = [headcount EXCEPT !.called = TRUE] @@
                    [result |-> calculate_headcount_recommendation(
                                    headcount.total_work_minutes,
                                    headcount.shift_minutes,
                                    headcount.target_efficiency)]
    /\ pc' = "recommended"
    /\ UNCHANGED <<associates, unassigned_work, placed, inputs,
                   first_result, carryover_data, shift2_volumes, shift_data>>

SpecHeadcount == InitHeadcount /\ [][Recommend]_vars

\* --------------------- render_shift_inputs_and_logic and the Generate button
\* the texts of the "Shift Working Hours" input: well-formed, zero, malformed
ShiftHourStrings == {"0:04:00", "0:0:0", "4:00"}

\* h, m, s = map(int, time_str.split(":")); <<>> when that raises ValueError
SplitTime(time_str) ==
    CASE time_str = "0:04:00" -> <<0, 4, 0>>
      [] time_str = "0:0:0" -> <<0, 0, 0>>
      [] time_str = "00:00:00" -> <<0, 0, 0>>
      [] OTHER -> <<>>

\* lines 7-11 on the text of an input: 0.0 when the text is malformed
time_str_to_minutes(time_str) ==
    LET hms == SplitTime(time_str)
    IN  IF hms = <<>> THEN 0 ELSE time_to_minutes(hms[1], hms[2], hms[3])

TargetEfficiencies == {60, 100}     \* the number input allows 1..100

InitGenerate ==
    /\ pc = "render"
    /\ associates \in Rosters
    /\ \E np \in {0, MaxPutaway}, ns \in 0..MaxStock, items \in ItemCounts :
          work_volumes = [num_putaway |-> np, num_stock_requests |-> ns,
                          replenishment_items |-> [wc \in Zones |-> IF wc = "Z1" THEN items[1] ELSE items[2]]]
    /\ \E ts \in TimeStandards :
          task_times = [picking_time |-> time_to_minutes(ts[1][1], ts[1][2], ts[1][3]),
                        putaway_time |-> time_to_minutes(ts[2][1], ts[2][2], ts[2][3]),
                        stock_request_time |-> time_to_minutes(ts[3][1], ts[3][2], ts[3][3])]
    /\ \E shift_hours_str \in ShiftHourStrings :
          /\ shift_minutes = time_str_to_minutes(shift_hours_str)
          /\ shift_data = [rendered |-> FALSE, shift_hours_str |-> shift_hours_str]
    /\ target_efficiency \in TargetEfficiencies
    /\ unassigned_work = [putaway |-> 0, stock_request |-> 0, fulfillment_minutes |-> 0]
    /\ placed = NoPlaced(Len(associates))
    /\ first_result = NoResult
    /\ carryover_data = NoCarryover
    /\ shift2_volumes = NoVolumes
    /\ headcount = NoHeadcount

RECURSIVE ItemsMinutes(_)
\* line 283: sum(v * picking_time for v in replenishment_items.values())
ItemsMinutes(wcs) ==
    IF wcs = <<>> THEN 0
    ELSE LET wc == wcs[Len(wcs)]
             before == ItemsMinutes(SubSeq(wcs, 1, Len(wcs) - 1))
         IN  IF work_volumes.replenishment_items[wc] > 0
             THEN fadd(before, imulf(work_volumes.replenishment_items[wc], task_times.picking_time))
             ELSE before

\* lines 283-285
total_work_minutes ==
    fadd(fadd(ItemsMinutes(ZoneOrder),
              imulf(work_volumes.num_putaway, task_times.putaway_time)),
         imulf(work_volumes.num_stock_requests, task_times.stock_request_time))

\* lines 253-255
time_warning(shift_hours_str) ==
    shift_minutes = 0 /\ shift_hours_str \notin {"0:0:0", "00:00:00"}

\* lines 369-389
can_generate(shift_hours_str) ==
    LET actual_headcount == N
        expected_wcs == {wc \in Zones : work_volumes.replenishment_items[wc] > 0}
        assigned_wcs == UNION {associates[i].workcenters : i \in 1..N}
        missing_wcs == expected_wcs \ assigned_wcs
    IN  /\ ~time_warning(shift_hours_str)
        /\ IF actual_headcount > 0
              /\ (work_volumes.num_putaway > 0 \/ work_volumes.num_stock_requests > 0
                    \/ Cardinality(expected_wcs) > 0)
           THEN missing_wcs = {}
           ELSE ~(actual_headcount = 0 /\ total_work_minutes > 0)

\* lines 246-403: what render_shift_inputs_and_logic returns
RenderInputs ==
    /\ pc = "render"
    /\ shift_data' = [rendered |-> TRUE,
                      shift_hours_str |-> shift_data.shift_hours_str,
                      total_work_minutes |-> total_work_minutes,
                      can_generate |-> can_generate(shift_data.shift_hours_str)]
    /\ pc' = "rendered"
    /\ UNCHANGED <<associates, unassigned_work, placed, inputs,
                   first_result, carryover_data, shift2_volumes, headcount>>

\* lines 411-418: the button is enabled and pressed, the engine is called
Generate ==
    /\ pc = "rendered"
    /\ shift_data.can_generate
    /\ pc' = "start"
    /\ UNCHANGED <<associates, unassigned_work, placed, inputs, others>>

NextGenerate == RenderInputs \/ Generate \/ Next

SpecGenerate == InitGenerate /\ [][NextGenerate]_vars

\* ------------------------------------------------------------ the claims
Allocated == pc \in {"loop", "done"}

\* the associate's total_work is strictly below its personal_capacity
BelowCapacity(a) == a.total_work < a.personal_capacity

\* C1: at the end of every pass of the greedy loop and on return, every
\* associate has total_work == fulfillment_time + putaway_time +
\* stock_request_time (the sum taken as Python evaluates it, or exactly).
C1_Conservation ==
    Allocated =>
        \A i \in 1..N :
            LET a == associates[i]
            IN  \/ a.total_work = fadd(fadd(a.fulfillment_time, a.putaway_time), a.stock_request_time)
                \/ a.total_work = a.fulfillment_time + a.putaway_time + a.stock_request_time

RECURSIVE PlacedUnits(_, _)
\* the units of one kind placed on the first k associates
PlacedUnits(kind, k) == IF k = 0 THEN 0 ELSE PlacedUnits(kind, k - 1) + placed[k][kind]

\* C2: in every state of the greedy loop and on return, for each kind the
\* remaining pool plus the units placed equals the requested count, and the
\* remaining pool is never negative.
C2_PoolAccounting ==
    Allocated =>
        /\ unassigned_work.putaway + PlacedUnits("putaway", N) = work_volumes.num_putaway
        /\ unassigned_work.stock_request + PlacedUnits("stock_request", N)
               = work_volumes.num_stock_requests
        /\ unassigned_work.putaway >= 0
        /\ unassigned_work.stock_request >= 0

C2_Witness ==
    /\ pc = "done"
    /\ PlacedUnits("putaway", N) >= 2
    /\ PlacedUnits("stock_request", N) >= 1
    /\ unassigned_work.putaway >= 1

\* an associate's fungible accumulators and placed units
Fungible(i, assocs, pl) ==
    <<assocs[i].putaway_time, assocs[i].stock_request_time, pl[i]>>

\* C3: a unit is only placed on an associate whose total_work is strictly
\* below personal_capacity at that moment; an associate at or over capacity
\* stays there and receives nothing for the rest of the run; a single
\* associate exactly at capacity with one pending putaway leaves putaway = 1.
C3_OnlyBelowCapacity ==
    /\ [][pc = "loop" =>
            \A i \in 1..N :
                ~BelowCapacity(associates[i]) =>
                    /\ ~BelowCapacity(associates'[i])
                    /\ Fungible(i, associates', placed') = Fungible(i, associates, placed)
                    /\ associates'[i].total_work = associates[i].total_work]_vars
    /\ [](pc = "done" /\ N = 1 /\ work_volumes.num_putaway = 1 =>
            (associates[1].fulfillment_time = associates[1].personal_capacity
                => unassigned_work.putaway = 1))

\* an associate that reached its capacity by placements, with work left over
C3_Witness ==
    /\ pc = "done"
    /\ WorkLeft(unassigned_work)
    /\ \E i \in 1..N :
          /\ associates[i].personal_capacity > 0
          /\ associates[i].fulfillment_time < associates[i].personal_capacity
          /\ ~BelowCapacity(associates[i])
          /\ placed[i].putaway >= 1
          /\ FirstTask(associates[i].priorities, unassigned_work) # "none"

PoolSum(uw) == uw.putaway + uw.stock_request

\* C4: every pass of the loop either places exactly one unit (the two pools
\* together lose exactly 1) or ends the loop, so there are at most
\* num_putaway + num_stock_requests placing passes, zero-minute task times
\* included.
C4_LoopTerminates ==
    /\ [][pc = "loop" =>
            \/ pc' = "loop" /\ PoolSum(unassigned_work') = PoolSum(unassigned_work) - 1
                            /\ PoolSum(unassigned_work') >= 0
            \/ pc' = "done" /\ unassigned_work' = unassigned_work]_vars
    /\ [](Allocated => PlacedUnits("putaway", N) + PlacedUnits("stock_request", N)
                          <= work_volumes.num_putaway + work_volumes.num_stock_requests)

\* a run that placed zero-minute units until the pools were empty
C4_Witness ==
    /\ pc = "done"
    /\ task_times.putaway_time = 0
    /\ PlacedUnits("putaway", N) = MaxPutaway
    /\ PlacedUnits("stock_request", N) >= 1
    /\ ~WorkLeft(unassigned_work)

RECURSIVE FulfillmentSum(_)
\* sum(a["fulfillment_time"] for a in associates[:k]), added in roster order
FulfillmentSum(k) ==
    IF k = 0 THEN 0 ELSE fadd(FulfillmentSum(k - 1), associates[k].fulfillment_time)

\* C6: with target_efficiency 0 or shift_minutes 0 every personal_capacity
\* is 0, the run ends with both pools at their requested counts and nothing
\* placed, every fulfillment_overage is the associate's whole
\* fulfillment_time, and fulfillment_minutes is the sum of the fulfillment
\* times.
C6_ZeroCapacity ==
    (target_efficiency = 0 \/ shift_minutes = 0) /\ Allocated =>
        /\ \A i \in 1..N :
              /\ associates[i].personal_capacity = 0
              /\ associates[i].fulfillment_overage = associates[i].fulfillment_time
              /\ placed[i] = [putaway |-> 0, stock_request |-> 0]
              /\ associates[i].total_work = associates[i].fulfillment_time
        /\ unassigned_work.putaway = work_volumes.num_putaway
        /\ unassigned_work.stock_request = work_volumes.num_stock_requests
        /\ unassigned_work.fulfillment_minutes = FulfillmentSum(N)

\* zero efficiency, two associates with anchor work, pending units of both kinds
C6_Witness ==
    /\ pc = "done"
    /\ target_efficiency = 0
    /\ shift_minutes > 0
    /\ N = 2
    /\ associates[1].fulfillment_time > 0
    /\ associates[2].fulfillment_time > 0
    /\ work_volumes.num_putaway > 0
    /\ work_volumes.num_stock_requests > 0
    /\ unassigned_work.fulfillment_minutes > associates[1].fulfillment_time

Prefers(i, kind) ==
    kind \in {associates[i].priorities[k] : k \in 1..Len(associates[i].priorities)}

\* Scenario C generalised: every associate starts the loop at total_work 0
\* and lists putaway, the putaway time is positive, there are no stock
\* requests and no capacity can be reached
ScenarioC ==
    /\ Allocated
    /\ N >= 1
    /\ work_volumes.num_stock_requests = 0
    /\ task_times.putaway_time > 0
    /\ \A i \in 1..N :
          /\ associates[i].fulfillment_time = 0
          /\ Prefers(i, "putaway")
          /\ associates[i].personal_capacity
                 > 2 * work_volumes.num_putaway * task_times.putaway_time

\* C9: in Scenario C the units go round-robin in roster order (after k
\* placements associate i holds k \div N units, one more if i <= k % N), so
\* no two associates differ by more than one unit, and the run ends with
\* the putaway pool empty.
C9_RoundRobin ==
    ScenarioC =>
        LET k == work_volumes.num_putaway - unassigned_work.putaway
        IN  /\ \A i \in 1..N :
                  placed[i].putaway = (k \div N) + (IF i <= k % N THEN 1 ELSE 0)
            /\ \A i, j \in 1..N :
                  placed[i].putaway - placed[j].putaway \in {-1, 0, 1}
            /\ pc = "done" => unassigned_work.putaway = 0

\* Scenario C itself: two associates, three putaway units, 2 and 1
C9_Witness ==
    /\ ScenarioC
    /\ pc = "done"
    /\ N = 2
    /\ work_volumes.num_putaway = 3
    /\ placed[1].putaway = 2
    /\ placed[2].putaway = 1

\* the entries of associate i's priorities before position k have empty pools
EarlierPoolsEmpty(i, k, uw) ==
    \A m \in 1..(k - 1) : uw[associates[i].priorities[m]] = 0

\* associate i is eligible and names a kind whose pool is not empty
CanTake(i, uw) ==
    /\ BelowCapacity(associates[i])
    /\ \E k \in 1..Len(associates[i].priorities) : uw[associates[i].priorities[k]] > 0

TimeField(kind) == IF kind = "putaway" THEN "putaway_time" ELSE "stock_request_time"

\* C10: a placing pass gives its one unit to the first associate, in
\* ascending total_work with ties in roster order, among the eligible
\* associates that name a kind with a non-empty pool; the kind is the
\* earliest entry of that associate's priorities with a non-empty pool;
\* nothing else changes.
C10_PlacingPass ==
    [][pc = "loop" /\ pc' = "loop" =>
        \E w \in 1..N : \E k \in 1..Len(associates[w].priorities) :
            LET kind == associates[w].priorities[k]
                cost == task_times[TimeField(kind)]
            IN  /\ CanTake(w, unassigned_work)
                /\ \A v \in 1..N \ {w} :
                      CanTake(v, unassigned_work) =>
                          \/ associates[w].total_work < associates[v].total_work
                          \/ /\ associates[w].total_work = associates[v].total_work
                             /\ w < v
                /\ unassigned_work[kind] > 0
                /\ EarlierPoolsEmpty(w, k, unassigned_work)
                /\ associates' = [associates EXCEPT
                                     ![w][TimeField(kind)] = fadd(@, cost),
                                     ![w].total_work = fadd(@, cost)]
                /\ unassigned_work' = [unassigned_work EXCEPT ![kind] = @ - 1]
                /\ placed' = [placed EXCEPT ![w][kind] = @ + 1]]_vars

\* the unit went to the second associate although the first is eligible
\* (its priorities name only an empty pool), and to its second priority
C10_Witness ==
    /\ pc = "loop"
    /\ N = 2
    /\ BelowCapacity(associates[1])
    /\ placed[1] = [putaway |-> 0, stock_request |-> 1]
    /\ placed[2] = [putaway |-> 2, stock_request |-> 0]
    /\ associates[2].priorities = <<"stock_request", "putaway">>
    /\ associates[1].total_work < associates[2].total_work

\* C5: a second call on the same arguments, the roster still carrying the
\* accumulators the first call wrote, returns the same associates and the
\* same unassigned work as the first.
C5_SameResult ==
    pc = "done" /\ first_result.run = 2 =>
        /\ associates = first_result.associates
        /\ unassigned_work = first_result.unassigned_work

\* a second call returned, on a roster that held fulfillment and putaway
\* minutes and an overage from the first
C5_Witness ==
    /\ pc = "done"
    /\ first_result.run = 2
    /\ \E i \in 1..N :
          /\ first_result.associates[i].fulfillment_overage > 0
          /\ first_result.associates[i].fulfillment_time > 0
    /\ \E j \in 1..N : first_result.associates[j].putaway_time > 0
    /\ first_result.unassigned_work.fulfillment_minutes > 0

\* C8: the result is 999 whenever shift_minutes * target_efficiency / 100 is
\* 0, and otherwise the ceiling of total_work_minutes over that capacity:
\* the least n with n * capacity >= total_work_minutes (both sides of the
\* comparisons are multiplied by 100 to stay in the integers).
C8_Ceiling ==
    headcount.called =>
        LET capacity100 == headcount.shift_minutes * headcount.target_efficiency
            total100 == headcount.total_work_minutes * 100
            n == headcount.result
        IN  /\ capacity100 = 0 => n = 999
            /\ capacity100 > 0 =>
                  /\ n * capacity100 >= total100
                  /\ (n - 1) * capacity100 < total100

\* the placed quantities of the carryover round trip, in quanta of a unit
ShortfallUnits ==
    IF task_times.picking_time > 0
    THEN fdiv(unassigned_work.fulfillment_minutes, task_times.picking_time)
    ELSE 0

MergedItemsTotal == TotalItems(shift2_volumes.replenishment_items, ZoneOrder)
EnteredItemsTotal == TotalItems(shift2_volumes.user_added_items, ZoneOrder)
CarriedItemsTotal == TotalItems(carryover_data.replenishment_items, ZoneOrder)

Abs(x) == IF x < 0 THEN -x ELSE x

Requested(kind) ==
    IF kind = "putaway" THEN work_volumes.num_putaway ELSE work_volumes.num_stock_requests

\* C11: on return a fungible pool is non-zero only if no associate below
\* capacity names that kind in its priorities; the loop never ends while an
\* associate below capacity could take a unit of a non-empty pool; with an
\* empty roster, or no associate below capacity when the loop starts, both
\* pools are returned at their requested counts.
C11_StopsOnlyWhenStuck ==
    /\ [](pc = "done" =>
            \A kind \in {"putaway", "stock_request"} :
                unassigned_work[kind] > 0 =>
                    ~\E i \in 1..N : BelowCapacity(associates[i]) /\ Prefers(i, kind))
    /\ [][pc = "loop" /\ pc' = "done" =>
            ~\E i \in 1..N : CanTake(i, unassigned_work)]_vars
    /\ [](pc = "done"
            /\ (\A i \in 1..N :
                   ~(associates[i].fulfillment_time < associates[i].personal_capacity)) =>
            \A kind \in {"putaway", "stock_request"} :
                unassigned_work[kind] = Requested(kind))

\* the run ended with putaway units left although an associate is below
\* capacity: it took a stock request and does not name putaway
C11_Witness ==
    /\ pc = "done"
    /\ unassigned_work.putaway > 0
    /\ unassigned_work.stock_request = 0
    /\ \E i \in 1..N :
          /\ BelowCapacity(associates[i])
          /\ placed[i].stock_request >= 1
          /\ ~Prefers(i, "putaway")

\* the minutes of a workcenter's items, and one owner's share of them
ZoneMinutes(wc) == imulf(work_volumes.replenishment_items[wc], task_times.picking_time)

Owners(wc) == {i \in 1..N : wc \in associates[i].workcenters}

OwnerShare(wc) == fdivi(ZoneMinutes(wc), Cardinality(Owners(wc)))

RECURSIVE SharesOf(_, _)
\* the shares associate i receives from the workcenters of the list wcs
SharesOf(i, wcs) ==
    IF wcs = <<>> THEN 0
    ELSE LET wc == wcs[Len(wcs)]
             before == SharesOf(i, SubSeq(wcs, 1, Len(wcs) - 1))
         IN  IF i \in Owners(wc) /\ work_volumes.replenishment_items[wc] > 0
             THEN fadd(before, OwnerShare(wc)) ELSE before

RECURSIVE OwnedMinutes(_)
\* the minutes of the owned workcenters of the list wcs, added as floats
OwnedMinutes(wcs) ==
    IF wcs = <<>> THEN 0
    ELSE LET wc == wcs[Len(wcs)]
             before == OwnedMinutes(SubSeq(wcs, 1, Len(wcs) - 1))
         IN  IF Owners(wc) # {} THEN fadd(before, ZoneMinutes(wc)) ELSE before

RECURSIVE OwnedMinutesExact(_)
\* the same sum without rounding
OwnedMinutesExact(wcs) ==
    IF wcs = <<>> THEN 0
    ELSE (IF Owners(Head(wcs)) # {} THEN ZoneMinutes(Head(wcs)) ELSE 0)
             + OwnedMinutesExact(Tail(wcs))

RECURSIVE FulfillmentSumExact(_)
FulfillmentSumExact(k) ==
    IF k = 0 THEN 0 ELSE FulfillmentSumExact(k - 1) + associates[k].fulfillment_time

\* C12: after the fixed-ownership pass every associate's fulfillment_time is
\* the sum of its shares items * picking_time / owners of the workcenters it
\* owns, whatever its capacity; the owners' shares of a workcenter sum to
\* items * picking_time; the fulfillment times of the roster sum to the
\* items * picking_time of the owned workcenters (the sums taken as Python
\* evaluates them, or exactly); a workcenter without owner adds nothing.
C12_FullShare ==
    Allocated =>
        /\ \A i \in 1..N : associates[i].fulfillment_time = SharesOf(i, ZoneOrder)
        /\ \A wc \in Zones :
              Owners(wc) # {} => Cardinality(Owners(wc)) * OwnerShare(wc) = ZoneMinutes(wc)
        /\ \/ FulfillmentSum(N) = OwnedMinutes(ZoneOrder)
           \/ FulfillmentSumExact(N) = OwnedMinutesExact(ZoneOrder)

RECURSIVE RosterOverage(_)
\* sum(a["fulfillment_overage"] for a in associates[:k]), added in roster order
RosterOverage(k) ==
    IF k = 0 THEN 0 ELSE fadd(RosterOverage(k - 1), associates[k].fulfillment_overage)

\* the fields of associate i that the fixed-ownership pass has settled
AnchorFields(assocs, i) ==
    <<assocs[i].fulfillment_time, assocs[i].fulfillment_overage,
      assocs[i].personal_capacity, assocs[i].personal_shift_minutes>>

\* C13: in the loop and on return every associate's fulfillment_overage is
\* max(0, fulfillment_time - personal_capacity) and the unassigned
\* fulfillment_minutes is the sum of the fulfillment overages over the
\* roster (differences and sums as Python evaluates them); no pass of the
\* greedy loop changes fulfillment_time, fulfillment_overage,
\* personal_capacity, personal_shift_minutes or fulfillment_minutes.
C13_OverageFixed ==
    /\ [](Allocated =>
            /\ \A i \in 1..N :
                  LET a == associates[i]
                  IN  a.fulfillment_overage =
                          IF a.fulfillment_time > a.personal_capacity
                          THEN fsub(a.fulfillment_time, a.personal_capacity) ELSE 0
            /\ unassigned_work.fulfillment_minutes = RosterOverage(N))
    /\ [][pc = "loop" =>
            /\ \A i \in 1..N : AnchorFields(associates', i) = AnchorFields(associates, i)
            /\ unassigned_work'.fulfillment_minutes = unassigned_work.fulfillment_minutes]_vars

\* one associate over its capacity by its fulfillment work, another one
\* with fulfillment work below capacity that the loop took past its
\* capacity
C13_Witness ==
    /\ pc = "done"
    /\ N = 2
    /\ unassigned_work.fulfillment_minutes > 0
    /\ \E i, j \in 1..N :
          /\ associates[i].fulfillment_overage > 0
          /\ associates[j].fulfillment_time > 0
          /\ associates[j].fulfillment_overage = 0
          /\ placed[j].putaway >= 1
          /\ associates[j].total_work > associates[j].personal_capacity

Carried == pc \in {"carried", "shift2"}

RequestedItemsTotal == TotalItems(work_volumes.replenishment_items, ZoneOrder)

\* the share of workcenter wc in the shortfall, as Python evaluates
\* u * (items / total) or u * items / total
ZoneShares(wc) ==
    LET items == work_volumes.replenishment_items[wc]
    IN  { fmul(ShortfallUnits, idivi(items, RequestedItemsTotal)),
          fdivi(imulf(items, ShortfallUnits), RequestedItemsTotal) }

RECURSIVE CarriedItemsSum(_)
\* sum(carryover_data["replenishment_items"].values()), added as floats
CarriedItemsSum(wcs) ==
    IF wcs = <<>> THEN 0
    ELSE fadd(CarriedItemsSum(SubSeq(wcs, 1, Len(wcs) - 1)),
              carryover_data.replenishment_items[wcs[Len(wcs)]])

\* C14: the carryover holds the remaining putaway and stock-request counts
\* unchanged; each workcenter's carried items are (fulfillment_minutes /
\* picking_time) * items / total of Shift 1's requested items, left out
\* exactly when that share is below 0.01; with picking_time 0 or no
\* requested items nothing is carried; the carried items summed (as floats
\* or exactly) do not exceed fulfillment_minutes / picking_time.
C14_Carryover ==
    Carried =>
        /\ carryover_data.num_putaway = unassigned_work.putaway
        /\ carryover_data.num_stock_requests = unassigned_work.stock_request
        /\ task_times.picking_time = 0 \/ RequestedItemsTotal = 0 =>
              \A wc \in Zones : carryover_data.replenishment_items[wc] = 0
        /\ task_times.picking_time > 0 /\ RequestedItemsTotal > 0 =>
              \A wc \in Zones : \E share \in ZoneShares(wc) :
                  carryover_data.replenishment_items[wc]
                      = IF 100 * share < Q THEN 0 ELSE share
        /\ task_times.picking_time > 0 =>
              \/ CarriedItemsSum(ZoneOrder) <= ShortfallUnits
              \/ CarriedItemsTotal <= ShortfallUnits

\* C15: whenever the plan can be generated, every workcenter with a
\* positive item count in the shift's work volumes is owned by at least one
\* enabled associate, so the engine is never called with an unowned
\* workcenter that has work; empty rosters and zero-minute time standards
\* included.
C15_OwnedWhenEnabled ==
    shift_data.rendered /\ shift_data.can_generate =>
        \A wc \in Zones :
            work_volumes.replenishment_items[wc] > 0 => Owners(wc) # {}

====
